---- MODULE Spec2Model ----
(***************************************************************************)
(* Model of the admin endpoints of backend/app/api/admin.py:               *)
(* process_detections, reset_processed and clear_database, acting on the   *)
(* detections and hazards tables through a database session.              *)
(*                                                                         *)
(* Units: coordinates are integers on a metre grid, magnitudes are in      *)
(* hundredths of g, confidence in hundredths, severity in hundredths of    *)
(* the 0..10 scale.                                                        *)
(***************************************************************************)
EXTENDS Integers, Sequences, FiniteSets, TLC

VARIABLES
    detections,     \* committed detections table: id -> row
    hazards,        \* committed hazards table: set of rows
    nextDetId,      \* detections.id sequence
    nextHazardId,   \* hazards.id sequence (not rolled back)
    min_points,     \* settings: minimum detections per cluster
    pc,             \* per session: position of the handler it runs
    rows,           \* per session: all_unprocessed as read (a sequence)
    before,         \* per session: the committed tables when the handler read
    pending,        \* per session: flushed, uncommitted work of the handler
    last,           \* the most recent completed operation and its response
    overlapped,     \* two process_detections runs have been in flight at once
    faults,         \* failed runs so far
    resets,         \* reset_processed / clear_database calls so far
    stats           \* a cluster's statistics and the hazard fields derived from them

vars == <<detections, hazards, nextDetId, nextHazardId, min_points, pc, rows,
          before, pending, last, overlapped, faults, resets, stats>>

-----------------------------------------------------------------------------
(* Bounds of the model *)

\* detections ever reported
MaxDet == 2
\* failed runs, reset_processed and clear_database calls, together
MaxDisruptions == 1
\* members of a cluster whose statistics are aggregated
MaxCount == 9

Sessions == {1, 2}

(* Values *)

NoHazard == 0
None == "<None>"

\* the detections clients report in the model: near and far points on a
\* metre grid, with and without a human label (None: the column is NULL)
Reports ==
    { [latitude |-> 0,  longitude |-> 0,  magnitude |-> 25,  user_id |-> 1, timestamp |-> 1, confirmed_type |-> None],
      [latitude |-> 0,  longitude |-> 10, magnitude |-> 120, user_id |-> 2, timestamp |-> 2, confirmed_type |-> ""],
      [latitude |-> 40, longitude |-> 5,  magnitude |-> 25,  user_id |-> 1, timestamp |-> 2, confirmed_type |-> None],
      [latitude |-> 0,  longitude |-> 10, magnitude |-> 25,  user_id |-> 1, timestamp |-> 2, confirmed_type |-> "Pothole"],
      [latitude |-> 40, longitude |-> 5,  magnitude |-> 120, user_id |-> 2, timestamp |-> 1, confirmed_type |-> "crack"] }

\* a batch of unprocessed detections, in id order.  BorderBatch: two groups
\* of three around the points at longitude 10 and 38, and one point at
\* longitude 24 within the radius of both
BorderBatch ==
    << [latitude |-> 0, longitude |-> 0,  magnitude |-> 10, user_id |-> 1, timestamp |-> 3, confirmed_type |-> None],
       [latitude |-> 0, longitude |-> 5,  magnitude |-> 20, user_id |-> 1, timestamp |-> 2, confirmed_type |-> None],
       [latitude |-> 0, longitude |-> 10, magnitude |-> 30, user_id |-> 2, timestamp |-> 1, confirmed_type |-> None],
       [latitude |-> 0, longitude |-> 24, magnitude |-> 20, user_id |-> 1, timestamp |-> 4, confirmed_type |-> None],
       [latitude |-> 0, longitude |-> 38, magnitude |-> 40, user_id |-> 3, timestamp |-> 2, confirmed_type |-> None],
       [latitude |-> 0, longitude |-> 43, magnitude |-> 30, user_id |-> 3, timestamp |-> 5, confirmed_type |-> None],
       [latitude |-> 0, longitude |-> 48, magnitude |-> 26, user_id |-> 3, timestamp |-> 1, confirmed_type |-> None] >>

\* MixedBatch: a human-confirmed row with a negative magnitude, three rows
\* within the radius of each other, one far away
MixedBatch ==
    << [latitude |-> 0,   longitude |-> 0,   magnitude |-> -5, user_id |-> 1, timestamp |-> 1, confirmed_type |-> "Pothole"],
       [latitude |-> 0,   longitude |-> 0,   magnitude |-> 25, user_id |-> 1, timestamp |-> 3, confirmed_type |-> None],
       [latitude |-> 0,   longitude |-> 10,  magnitude |-> 30, user_id |-> 1, timestamp |-> 1, confirmed_type |-> None],
       [latitude |-> 5,   longitude |-> 5,   magnitude |-> 20, user_id |-> 2, timestamp |-> 2, confirmed_type |-> None],
       [latitude |-> 100, longitude |-> 100, magnitude |-> 25, user_id |-> 2, timestamp |-> 2, confirmed_type |-> None] >>

Batches == {BorderBatch, MixedBatch}

\* largest magnitude of a cluster, in hundredths of g, around the thresholds
PeakMagnitudes == {20, 31, 32, 99, 100, 120}

\* settings the clustering service is configured with
RadiusMeters == 15
MinPointsSettings == {1, 2, 3}
BatchMinPoints == {3, 4, 5}

-----------------------------------------------------------------------------
(* Generic helpers *)

Range(s) == {s[i] : i \in DOMAIN s}

Min(S) == CHOOSE x \in S : \A y \in S : x <= y
Max(S) == CHOOSE x \in S : \A y \in S : x >= y

RECURSIVE SumSeq(_)
SumSeq(s) == IF s = <<>> THEN 0 ELSE Head(s) + SumSeq(Tail(s))

\* every order in which a result set of rows may be returned
Orderings(S) ==
    {f \in [1..Cardinality(S) -> S] : \A i, j \in DOMAIN f : i # j => f[i] # f[j]}

\* Python truthiness of a nullable string
Truthy(s) == s # None /\ s # ""

\* str.lower() on the confirmed_type values of the model
Lower(s) ==
    CASE s = "Pothole" -> "pothole"
      [] s = "POTHOLE" -> "pothole"
      [] s = "Speed_Bump" -> "speed_bump"
      [] OTHER -> s

-----------------------------------------------------------------------------
(* SpatialClusteringService (app/services/clustering.py) *)

\* squared planar distance between two (lat, lon, id) triples, in metres^2
Distance2(p, q) ==
    (p[1] - q[1]) * (p[1] - q[1]) + (p[2] - q[2]) * (p[2] - q[2])

WithinRadius(p, q) == Distance2(p, q) <= RadiusMeters * RadiusMeters

Neighbours(p, P) == {q \in P : WithinRadius(p, q)}

\* core point: at least minPts input points, itself included, within radius
CorePoints(P, minPts) == {p \in P : Cardinality(Neighbours(p, P)) >= minPts}

\* the core points density-connected to the core points C
RECURSIVE Reach(_, _)
Reach(C, cores) ==
    LET next == C \cup {q \in cores : \E p \in C : WithinRadius(p, q)}
    IN  IF next = C THEN C ELSE Reach(next, cores)

\* clusters in discovery order under ascending detection id; a border point
\* joins the first discovered cluster that reaches it
RECURSIVE BuildClusters(_, _, _)
BuildClusters(P, cores, assigned) ==
    LET free == {c \in cores : c[3] \notin assigned}
    IN  IF free = {} THEN <<>>
        ELSE LET seed == CHOOSE c \in free : \A d \in free : c[3] <= d[3]
                 comp == Reach({seed}, cores)
                 members == {q \in P : /\ q[3] \notin assigned
                                       /\ \E c \in comp : WithinRadius(c, q)}
                 ids == {q[3] : q \in members}
             IN  <<ids>> \o BuildClusters(P, cores, assigned \cup ids)

\* cluster_detections(coords): a sequence of sets of detection ids
cluster_detections(coords, minPts) ==
    LET P == Range(coords) IN BuildClusters(P, CorePoints(P, minPts), {})

\* calculate_cluster_centroid: mean latitude and longitude, in hundredths of
\* a metre
calculate_cluster_centroid(coords) ==
    LET n == Len(coords)
    IN  << (100 * SumSeq([i \in 1..n |-> coords[i][1]])) \div n,
           (100 * SumSeq([i \in 1..n |-> coords[i][2]])) \div n >>

\* calculate_cluster_severity: min(10, (0.7*avg + 0.3*max) / 5 * 10), in
\* hundredths, for magnitudes in hundredths of g
calculate_cluster_severity(magnitudes) ==
    LET n == Len(magnitudes)
        raw == (2 * (7 * SumSeq(magnitudes) + 3 * n * Max(Range(magnitudes)))) \div (10 * n)
    IN  IF raw > 1000 THEN 1000 ELSE raw

-----------------------------------------------------------------------------
(* process_detections: the computation between the read and the commit *)

\* mutant: the query without its processed = false filter
UnprocessedAll(dets) == {dets[i] : i \in DOMAIN dets}

\* the query of lines 85-87
Unprocessed(dets) == {dets[i] : i \in {j \in DOMAIN dets : dets[j].processed = FALSE}}

\* line 100 and line 101
IsHumanConfirmed(d) == Truthy(d.confirmed_type)

\* line 117
HumanHazardType(d) ==
    IF Truthy(d.confirmed_type) THEN Lower(d.confirmed_type) ELSE "unknown"

\* mutant: the human path takes its confidence from the cluster formula
HumanHazardFormulaConfidence(d, hid) ==
    [id |-> hid,
     latitude |-> 100 * d.latitude,
     longitude |-> 100 * d.longitude,
     hazard_type |-> HumanHazardType(d),
     severity |-> calculate_cluster_severity(<<d.magnitude>>),
     confidence |-> 30,
     detection_count |-> 1,
     unique_user_count |-> 1,
     verification_count |-> 0,
     positive_verifications |-> 0,
     first_detected |-> d.timestamp,
     last_detected |-> d.timestamp,
     is_active |-> TRUE,
     is_verified |-> FALSE]

\* lines 120-135
HumanHazard(d, hid) ==
    [id |-> hid,
     latitude |-> 100 * d.latitude,
     longitude |-> 100 * d.longitude,
     hazard_type |-> HumanHazardType(d),
     severity |-> calculate_cluster_severity(<<d.magnitude>>),
     confidence |-> 90,
     detection_count |-> 1,
     unique_user_count |-> 1,
     verification_count |-> 0,
     positive_verifications |-> 0,
     first_detected |-> d.timestamp,
     last_detected |-> d.timestamp,
     is_active |-> TRUE,
     is_verified |-> FALSE]

\* mutant: the detection is linked but not marked processed
LinkDetectionForgetsFlag(w, d, hid) ==
    [w EXCEPT !.dets[d.id] = [@ EXCEPT !.hazard_id = hid],
              !.processed_detection_ids = @ \cup {d.id}]

\* lines 141-146: link one detection to the hazard just flushed
LinkDetection(w, d, hid) ==
    [w EXCEPT !.dets[d.id] = [@ EXCEPT !.processed = TRUE, !.hazard_id = hid],
              !.processed_detection_ids = @ \cup {d.id}]

\* lines 109-146
RECURSIVE HumanLoop(_, _)
HumanLoop(human_confirmed, w) ==
    IF human_confirmed = <<>> THEN w
    ELSE LET d == Head(human_confirmed)
             hazard == HumanHazard(d, w.next_id)
             w1 == [w EXCEPT !.hazards = @ \cup {hazard}, !.next_id = @ + 1]
             w2 == LinkDetection(w1, d, hazard.id)
         IN  HumanLoop(Tail(human_confirmed),
                       [w2 EXCEPT !.human_confirmed_hazards = @ + 1,
                                  !.detections_processed = @ + 1])

\* mutant: the speed_bump band is tested before the rough_road rule
AlgorithmHazardTypeBandFirst(sum, n, max_magnitude) ==
    IF max_magnitude >= 100 THEN "speed_hump"
    ELSE IF sum >= 20 * n /\ sum <= 31 * n THEN "speed_bump"
    ELSE IF sum >= 30 * n /\ n >= 8 THEN "rough_road"
    ELSE IF sum >= 20 * n THEN "pothole"
    ELSE "unknown"

\* lines 194-207, on the sum, count and maximum of the magnitudes
AlgorithmHazardType(sum, n, max_magnitude) ==
    IF max_magnitude >= 100 THEN "speed_hump"
    ELSE IF sum >= 30 * n /\ n >= 8 THEN "rough_road"
    ELSE IF sum >= 20 * n
         THEN IF sum <= 31 * n THEN "speed_bump" ELSE "pothole"
    ELSE "unknown"

\* mutant: the confidence without its cap at 1.0
ClusterConfidenceUncapped(detection_count, unique_users) ==
    detection_count * 10 + unique_users * 20

\* line 187 and line 188
ClusterConfidence(detection_count, unique_users) ==
    LET c == detection_count * 10 + unique_users * 20
    IN  IF c > 100 THEN 100 ELSE c

\* mutant: first_detected is the first member's timestamp, not the minimum
ClusterHazardFirstSeen(cluster, hid) ==
    LET n == Len(cluster)
        centroid == calculate_cluster_centroid(
                        [i \in 1..n |-> <<cluster[i].latitude, cluster[i].longitude, cluster[i].id>>])
        magnitudes == [i \in 1..n |-> cluster[i].magnitude]
        unique_users == Cardinality({cluster[i].user_id : i \in 1..n})
        timestamps == {cluster[i].timestamp : i \in 1..n}
    IN  [id |-> hid,
         latitude |-> centroid[1],
         longitude |-> centroid[2],
         hazard_type |-> AlgorithmHazardType(SumSeq(magnitudes), n, Max(Range(magnitudes))),
         severity |-> calculate_cluster_severity(magnitudes),
         confidence |-> ClusterConfidence(n, unique_users),
         detection_count |-> n,
         unique_user_count |-> unique_users,
         verification_count |-> 0,
         positive_verifications |-> 0,
         first_detected |-> cluster[1].timestamp,
         last_detected |-> Max(timestamps),
         is_active |-> TRUE,
         is_verified |-> FALSE]

\* mutant: unique_user_count is the number of member detections
ClusterHazardCountsReports(cluster, hid) ==
    LET n == Len(cluster)
        centroid == calculate_cluster_centroid(
                        [i \in 1..n |-> <<cluster[i].latitude, cluster[i].longitude, cluster[i].id>>])
        magnitudes == [i \in 1..n |-> cluster[i].magnitude]
        unique_users == Cardinality({cluster[i].user_id : i \in 1..n})
        timestamps == {cluster[i].timestamp : i \in 1..n}
    IN  [id |-> hid,
         latitude |-> centroid[1],
         longitude |-> centroid[2],
         hazard_type |-> AlgorithmHazardType(SumSeq(magnitudes), n, Max(Range(magnitudes))),
         severity |-> calculate_cluster_severity(magnitudes),
         confidence |-> ClusterConfidence(n, unique_users),
         detection_count |-> n,
         unique_user_count |-> n,
         verification_count |-> 0,
         positive_verifications |-> 0,
         first_detected |-> Min(timestamps),
         last_detected |-> Max(timestamps),
         is_active |-> TRUE,
         is_verified |-> FALSE]

\* mutant: last_detected is the last member's timestamp, not the maximum
ClusterHazardLastSeen(cluster, hid) ==
    LET n == Len(cluster)
        centroid == calculate_cluster_centroid(
                        [i \in 1..n |-> <<cluster[i].latitude, cluster[i].longitude, cluster[i].id>>])
        magnitudes == [i \in 1..n |-> cluster[i].magnitude]
        unique_users == Cardinality({cluster[i].user_id : i \in 1..n})
        timestamps == {cluster[i].timestamp : i \in 1..n}
    IN  [id |-> hid,
         latitude |-> centroid[1],
         longitude |-> centroid[2],
         hazard_type |-> AlgorithmHazardType(SumSeq(magnitudes), n, Max(Range(magnitudes))),
         severity |-> calculate_cluster_severity(magnitudes),
         confidence |-> ClusterConfidence(n, unique_users),
         detection_count |-> n,
         unique_user_count |-> unique_users,
         verification_count |-> 0,
         positive_verifications |-> 0,
         first_detected |-> Min(timestamps),
         last_detected |-> cluster[n].timestamp,
         is_active |-> TRUE,
         is_verified |-> FALSE]

\* lines 166-230
ClusterHazard(cluster, hid) ==
    LET n == Len(cluster)
        centroid == calculate_cluster_centroid(
                        [i \in 1..n |-> <<cluster[i].latitude, cluster[i].longitude, cluster[i].id>>])
        magnitudes == [i \in 1..n |-> cluster[i].magnitude]
        unique_users == Cardinality({cluster[i].user_id : i \in 1..n})
        timestamps == {cluster[i].timestamp : i \in 1..n}
    IN  [id |-> hid,
         latitude |-> centroid[1],
         longitude |-> centroid[2],
         hazard_type |-> AlgorithmHazardType(SumSeq(magnitudes), n, Max(Range(magnitudes))),
         severity |-> calculate_cluster_severity(magnitudes),
         confidence |-> ClusterConfidence(n, unique_users),
         detection_count |-> n,
         unique_user_count |-> unique_users,
         verification_count |-> 0,
         positive_verifications |-> 0,
         first_detected |-> Min(timestamps),
         last_detected |-> Max(timestamps),
         is_active |-> TRUE,
         is_verified |-> FALSE]

\* mutant: only the first member of the cluster is linked
LinkAllFirstOnly(w, cluster, hid) ==
    IF cluster = <<>> THEN w ELSE LinkDetection(w, Head(cluster), hid)

\* lines 236-239
RECURSIVE LinkAll(_, _, _)
LinkAll(w, cluster, hid) ==
    IF cluster = <<>> THEN w
    ELSE LinkAll(LinkDetection(w, Head(cluster), hid), Tail(cluster), hid)

\* mutant: the member lookup without its id filter
ClusterMembersAll(algorithm_only, cluster_detection_ids) == algorithm_only

\* line 161
ClusterMembers(algorithm_only, cluster_detection_ids) ==
    SelectSeq(algorithm_only, LAMBDA d : d.id \in cluster_detection_ids)

\* lines 159-242
RECURSIVE ClusterLoop(_, _, _)
ClusterLoop(clusters, algorithm_only, w) ==
    IF clusters = <<>> THEN w
    ELSE LET cluster == ClusterMembers(algorithm_only, Head(clusters))
         IN  IF cluster = <<>>
             THEN ClusterLoop(Tail(clusters), algorithm_only, w)
             ELSE LET hazard == ClusterHazard(cluster, w.next_id)
                      w1 == [w EXCEPT !.hazards = @ \cup {hazard}, !.next_id = @ + 1]
                      w2 == LinkAll(w1, cluster, hazard.id)
                  IN  ClusterLoop(Tail(clusters), algorithm_only,
                                  [w2 EXCEPT !.clustered_hazards = @ + 1,
                                             !.detections_processed = @ + Len(cluster)])

\* mutant: the noise ids are counted but the rows are not marked processed
MarkNoiseForgetsFlag(w, algorithm_only) ==
    LET all_algorithm_ids == {d.id : d \in Range(algorithm_only)}
    IN  [w EXCEPT !.noise_detection_ids = all_algorithm_ids \ w.processed_detection_ids]

\* mutant: the noise set is not reduced by the ids linked to a hazard
MarkNoiseCountsAll(w, algorithm_only) ==
    LET all_algorithm_ids == {d.id : d \in Range(algorithm_only)}
    IN  [w EXCEPT !.dets = [i \in DOMAIN @ |->
                               IF i \in all_algorithm_ids
                               THEN [@[i] EXCEPT !.processed = TRUE]
                               ELSE @[i]],
                  !.noise_detection_ids = all_algorithm_ids]

\* lines 245-254
MarkNoise(w, algorithm_only) ==
    LET all_algorithm_ids == {d.id : d \in Range(algorithm_only)}
        noise_detection_ids == all_algorithm_ids \ w.processed_detection_ids
    IN  [w EXCEPT !.dets = [i \in DOMAIN @ |->
                               IF i \in noise_detection_ids
                               THEN [@[i] EXCEPT !.processed = TRUE]
                               ELSE @[i]],
                  !.noise_detection_ids = noise_detection_ids]

\* lines 99-254: the session's work on all_unprocessed, hazard ids from hid
RunBody(all_unprocessed, hid, minPts) ==
    LET human_confirmed == SelectSeq(all_unprocessed, IsHumanConfirmed)
        algorithm_only == SelectSeq(all_unprocessed, LAMBDA d : ~IsHumanConfirmed(d))
        w0 == [dets |-> [i \in {d.id : d \in Range(all_unprocessed)} |->
                           CHOOSE d \in Range(all_unprocessed) : d.id = i],
               hazards |-> {},
               next_id |-> hid,
               processed_detection_ids |-> {},
               noise_detection_ids |-> {},
               clustering_input |-> <<>>,
               human_confirmed_hazards |-> 0,
               clustered_hazards |-> 0,
               detections_processed |-> 0]
        w1 == HumanLoop(human_confirmed, w0)
        unprocessed_coords == [i \in 1..Len(algorithm_only) |->
                                 <<algorithm_only[i].latitude,
                                   algorithm_only[i].longitude,
                                   algorithm_only[i].id>>]
    IN  IF algorithm_only # <<>>
        THEN MarkNoise(
                 ClusterLoop(cluster_detections(unprocessed_coords, minPts),
                             algorithm_only,
                             [w1 EXCEPT !.clustering_input = unprocessed_coords]),
                 algorithm_only)
        ELSE w1

\* mutant: every row read is reported as processed into a hazard
ResponseCountsRows(all_unprocessed, w) ==
    [detections_total |-> Len(all_unprocessed),
     human_confirmed_hazards |-> w.human_confirmed_hazards,
     clustered_hazards |-> w.clustered_hazards,
     detections_processed |-> Len(all_unprocessed),
     detections_marked_noise |-> Cardinality(w.noise_detection_ids)]

\* lines 263-270
Response(all_unprocessed, w) ==
    [detections_total |-> Len(all_unprocessed),
     human_confirmed_hazards |-> w.human_confirmed_hazards,
     clustered_hazards |-> w.clustered_hazards,
     detections_processed |-> w.detections_processed,
     detections_marked_noise |-> Cardinality(w.noise_detection_ids)]

\* lines 90-97
EmptyResponse ==
    [detections_total |-> 0,
     human_confirmed_hazards |-> 0,
     clustered_hazards |-> 0,
     detections_processed |-> 0,
     detections_marked_noise |-> 0]

-----------------------------------------------------------------------------
(* The database session: flush and commit *)

\* mutant: the commit replaces the hazards table by the run's hazards
CommitReplacesHazards(tables, w) ==
    [detections |-> [i \in DOMAIN tables.detections |->
                        IF i \in DOMAIN w.dets
                        THEN [tables.detections[i] EXCEPT
                                  !.processed = w.dets[i].processed,
                                  !.hazard_id = w.dets[i].hazard_id]
                        ELSE tables.detections[i]],
     hazards |-> w.hazards]

\* the committed tables with the session's work w applied (line 256)
Commit(tables, w) ==
    [detections |-> [i \in DOMAIN tables.detections |->
                        IF i \in DOMAIN w.dets
                        THEN [tables.detections[i] EXCEPT
                                  !.processed = w.dets[i].processed,
                                  !.hazard_id = w.dets[i].hazard_id]
                        ELSE tables.detections[i]],
     hazards |-> tables.hazards \cup w.hazards]

\* mutant: every flush is a commit
FlushCommits(tables, w) ==
    [detections |-> [i \in DOMAIN tables.detections |->
                        IF i \in DOMAIN w.dets
                        THEN [tables.detections[i] EXCEPT
                                  !.processed = w.dets[i].processed,
                                  !.hazard_id = w.dets[i].hazard_id]
                        ELSE tables.detections[i]],
     hazards |-> tables.hazards \cup w.hazards]

\* the committed tables after the session's flushes (line 138 and line 233):
\* flushed work stays inside the session's transaction
Flush(tables, w) == tables

Tables == [detections |-> detections, hazards |-> hazards]

\* the tables as session s sees them: the committed tables with the work it
\* has flushed and not yet committed (process_detections: the hazards and
\* links of lines 137-143 and 233-238; reset_processed: the flags cleared
\* in lines 386-390, the hazards not yet deleted)
SessionView(s) ==
    CASE pc[s] = "flushed" -> Commit(Tables, pending[s])
      [] pc[s] = "reset_flushed" ->
             [detections |-> [i \in DOMAIN detections |->
                                 IF i \in pending[s].all_detections
                                 THEN [detections[i] EXCEPT !.processed = FALSE,
                                                            !.hazard_id = NoHazard]
                                 ELSE detections[i]],
              hazards |-> hazards]
      [] OTHER -> Tables

NoOp == [op |-> "none"]

Idle == [s \in Sessions |-> "idle"]

Exclusive == \A t \in Sessions : pc[t] = "idle"

-----------------------------------------------------------------------------
(* Initial state: empty tables, no handler running *)

Init ==
    /\ detections = <<>>
    /\ hazards = {}
    /\ nextDetId = 1
    /\ nextHazardId = 1
    /\ min_points \in MinPointsSettings
    /\ pc = Idle
    /\ rows = [s \in Sessions |-> <<>>]
    /\ before = [s \in Sessions |-> NoOp]
    /\ pending = [s \in Sessions |-> NoOp]
    /\ last = NoOp
    /\ overlapped = FALSE
    /\ faults = 0
    /\ resets = 0
    /\ stats = NoOp

\* the statistics of a cluster of lines 166-192: its size, the sum and the
\* maximum of its magnitudes, its distinct users
ClusterStatistics ==
    {[op |-> "cluster", detection_count |-> n, sum |-> sum,
      max_magnitude |-> mx, unique_users |-> u] :
        <<n, sum, mx, u>> \in
            {t \in (1..MaxCount) \X (0..(MaxCount * 120)) \X PeakMagnitudes \X (1..MaxCount) :
                /\ t[3] <= t[2]
                /\ t[2] <= t[1] * t[3]
                /\ t[4] <= t[1]}}

\* no table row, no handler running, the statistics of one cluster at hand
InitAggregate ==
    /\ detections = <<>>
    /\ hazards = {}
    /\ nextDetId = 1
    /\ nextHazardId = 1
    /\ min_points = Min(MinPointsSettings)
    /\ pc = Idle
    /\ rows = [s \in Sessions |-> <<>>]
    /\ before = [s \in Sessions |-> NoOp]
    /\ pending = [s \in Sessions |-> NoOp]
    /\ last = NoOp
    /\ overlapped = FALSE
    /\ faults = 0
    /\ resets = 0
    /\ stats \in ClusterStatistics

\* the rows of a batch as stored detections: unprocessed, not linked
Stored(batch) ==
    [i \in 1..Len(batch) |->
        [id |-> i,
         latitude |-> batch[i].latitude,
         longitude |-> batch[i].longitude,
         magnitude |-> batch[i].magnitude,
         timestamp |-> batch[i].timestamp,
         user_id |-> batch[i].user_id,
         confirmed_type |-> batch[i].confirmed_type,
         processed |-> FALSE,
         hazard_id |-> NoHazard]]

\* a batch of detections has been stored, no hazard yet, no handler running
InitBatch ==
    /\ \E batch \in Batches :
          /\ detections = Stored(batch)
          /\ nextDetId = Len(batch) + 1
    /\ hazards = {}
    /\ nextHazardId = 1
    /\ min_points \in BatchMinPoints
    /\ pc = Idle
    /\ rows = [s \in Sessions |-> <<>>]
    /\ before = [s \in Sessions |-> NoOp]
    /\ pending = [s \in Sessions |-> NoOp]
    /\ last = NoOp
    /\ overlapped = FALSE
    /\ faults = 0
    /\ resets = 0
    /\ stats = NoOp

-----------------------------------------------------------------------------
(* Actions *)

\* a client reports a detection (stored unprocessed, not linked); at most
\* limit detections are ever reported
Arrive(limit) ==
    /\ nextDetId <= limit
    /\ \E r \in Reports :
         detections' = detections @@
             (nextDetId :> [id |-> nextDetId,
                            latitude |-> r.latitude,
                            longitude |-> r.longitude,
                            magnitude |-> r.magnitude,
                            timestamp |-> r.timestamp,
                            user_id |-> r.user_id,
                            confirmed_type |-> r.confirmed_type,
                            processed |-> FALSE,
                            hazard_id |-> NoHazard])
    /\ nextDetId' = nextDetId + 1
    /\ last' = NoOp
    /\ UNCHANGED <<hazards, nextHazardId, min_points, pc, rows, before,
                   pending, overlapped, faults, resets, stats>>

\* process_detections, lines 84-97: read the unprocessed detections; return
\* at once when there are none
ProcessRead(s) ==
    /\ pc[s] = "idle"
    /\ LET all == Unprocessed(detections)
       IN  \/ /\ all = {}
              /\ last' = [op |-> "process_detections",
                          status |-> "empty",
                          response |-> EmptyResponse,
                          before |-> Tables,
                          input |-> {},
                          created |-> {},
                          clustering_input |-> <<>>]
              /\ UNCHANGED <<pc, rows, before, overlapped>>
           \/ /\ all # {}
              /\ \E all_unprocessed \in Orderings(all) :
                     rows' = [rows EXCEPT ![s] = all_unprocessed]
              /\ before' = [before EXCEPT ![s] = Tables]
              /\ pc' = [pc EXCEPT ![s] = "read"]
              /\ overlapped' = (overlapped \/ \E t \in Sessions \ {s} : pc[t] # "idle")
              /\ UNCHANGED last
    /\ UNCHANGED <<detections, hazards, nextDetId, nextHazardId, min_points,
                   pending, faults, resets, stats>>

\* process_detections, lines 99-254: create and flush the hazards, link the
\* detections, mark the noise
ProcessFlush(s) ==
    /\ pc[s] = "read"
    /\ LET w == RunBody(rows[s], nextHazardId, min_points)
           t == Flush(Tables, w)
       IN  /\ pending' = [pending EXCEPT ![s] = w]
           /\ nextHazardId' = w.next_id
           /\ detections' = t.detections
           /\ hazards' = t.hazards
    /\ pc' = [pc EXCEPT ![s] = "flushed"]
    /\ UNCHANGED <<nextDetId, min_points, rows, before, last, overlapped,
                   faults, resets, stats>>

\* process_detections, lines 256-270: commit and return the counts
ProcessCommit(s) ==
    /\ pc[s] = "flushed"
    /\ LET t == Commit(Tables, pending[s])
       IN  /\ detections' = t.detections
           /\ hazards' = t.hazards
    /\ last' = [op |-> "process_detections",
                status |-> "ok",
                response |-> Response(rows[s], pending[s]),
                before |-> before[s],
                input |-> {d.id : d \in Range(rows[s])},
                created |-> {h.id : h \in pending[s].hazards},
                clustering_input |-> pending[s].clustering_input]
    /\ pc' = [pc EXCEPT ![s] = "idle"]
    /\ rows' = [rows EXCEPT ![s] = <<>>]
    /\ before' = [before EXCEPT ![s] = NoOp]
    /\ pending' = [pending EXCEPT ![s] = NoOp]
    /\ UNCHANGED <<nextDetId, nextHazardId, min_points, overlapped, faults, resets, stats>>

\* process_detections raises (clustering, a flush or the commit fails): the
\* session's transaction is rolled back
ProcessFail(s) ==
    /\ pc[s] \in {"read", "flushed"}
    /\ faults + resets < MaxDisruptions
    /\ faults' = faults + 1
    /\ last' = [op |-> "process_detections",
                status |-> "failed",
                stage |-> pc[s],
                flushed |-> IF pc[s] = "flushed" THEN pending[s].hazards ELSE {},
                before |-> before[s],
                input |-> {d.id : d \in Range(rows[s])}]
    /\ pc' = [pc EXCEPT ![s] = "idle"]
    /\ rows' = [rows EXCEPT ![s] = <<>>]
    /\ before' = [before EXCEPT ![s] = NoOp]
    /\ pending' = [pending EXCEPT ![s] = NoOp]
    /\ UNCHANGED <<detections, hazards, nextDetId, nextHazardId, min_points,
                   overlapped, resets, stats>>

\* mutant: the flush of line 390 commits the cleared flags
ResetFlushAutocommit(s) ==
    /\ pc[s] = "idle"
    /\ faults + resets < MaxDisruptions
    /\ resets' = resets + 1
    /\ pending' = [pending EXCEPT ![s] = [all_detections |-> DOMAIN detections]]
    /\ before' = [before EXCEPT ![s] = Tables]
    /\ pc' = [pc EXCEPT ![s] = "reset_flushed"]
    /\ detections' = [i \in DOMAIN detections |->
                         [detections[i] EXCEPT !.processed = FALSE,
                                                !.hazard_id = NoHazard]]
    /\ UNCHANGED <<hazards, nextDetId, nextHazardId, min_points,
                   rows, last, overlapped, faults, stats>>

\* reset_processed, lines 380-390: load every detection, clear processed and
\* hazard_id, flush
ResetFlush(s) ==
    /\ pc[s] = "idle"
    /\ faults + resets < MaxDisruptions
    /\ resets' = resets + 1
    /\ pending' = [pending EXCEPT ![s] = [all_detections |-> DOMAIN detections]]
    /\ before' = [before EXCEPT ![s] = Tables]
    /\ pc' = [pc EXCEPT ![s] = "reset_flushed"]
    /\ UNCHANGED <<detections, hazards, nextDetId, nextHazardId, min_points,
                   rows, last, overlapped, faults, stats>>

\* reset_processed, lines 392-402: delete every hazard, commit
ResetCommit(s) ==
    /\ pc[s] = "reset_flushed"
    /\ detections' = [i \in DOMAIN detections |->
                         IF i \in pending[s].all_detections
                         THEN [detections[i] EXCEPT !.processed = FALSE,
                                                    !.hazard_id = NoHazard]
                         ELSE detections[i]]
    /\ hazards' = {}
    /\ last' = [op |-> "reset_processed",
                status |-> "ok",
                response |-> [detections_reset |-> Cardinality(pending[s].all_detections),
                              hazards_deleted |-> Cardinality(hazards)],
                before |-> before[s]]
    /\ pc' = [pc EXCEPT ![s] = "idle"]
    /\ before' = [before EXCEPT ![s] = NoOp]
    /\ pending' = [pending EXCEPT ![s] = NoOp]
    /\ UNCHANGED <<nextDetId, nextHazardId, min_points, rows, overlapped,
                   faults, resets, stats>>

\* clear_database, lines 429-443
ClearDatabase ==
    /\ faults + resets < MaxDisruptions
    /\ resets' = resets + 1
    /\ detections' = <<>>
    /\ hazards' = {}
    /\ last' = [op |-> "clear_database",
                status |-> "ok",
                response |-> [detections_deleted |-> Cardinality(DOMAIN detections),
                              hazards_deleted |-> Cardinality(hazards)],
                before |-> Tables]
    /\ UNCHANGED <<nextDetId, nextHazardId, min_points, pc, rows, before,
                   pending, overlapped, faults, stats>>

\* process_detections, lines 186-207: the confidence and the hazard type
\* of a cluster, from its statistics
Aggregate ==
    /\ stats.op = "cluster"
    /\ stats' = [op |-> "aggregated",
                 detection_count |-> stats.detection_count,
                 sum |-> stats.sum,
                 max_magnitude |-> stats.max_magnitude,
                 unique_users |-> stats.unique_users,
                 confidence |-> ClusterConfidence(stats.detection_count,
                                                  stats.unique_users),
                 hazard_type |-> AlgorithmHazardType(stats.sum,
                                                     stats.detection_count,
                                                     stats.max_magnitude)]
    /\ UNCHANGED <<detections, hazards, nextDetId, nextHazardId, min_points,
                   pc, rows, before, pending, last, overlapped, faults, resets>>

-----------------------------------------------------------------------------
(* Specifications *)

\* one handler at a time: the store serialises the admin operations
Next ==
    \/ Arrive(MaxDet)
    \/ Exclusive /\ ProcessRead(1)
    \/ ProcessFlush(1)
    \/ ProcessCommit(1)
    \/ ProcessFail(1)
    \/ Exclusive /\ ResetFlush(1)
    \/ ResetCommit(1)
    \/ Exclusive /\ ClearDatabase

Spec == Init /\ [][Next]_vars

\* process_detections requests served concurrently, as the endpoint allows
NextConcurrent ==
    \/ Arrive(MaxDet)
    \/ \E s \in Sessions : ProcessRead(s)
    \/ \E s \in Sessions : ProcessFlush(s)
    \/ \E s \in Sessions : ProcessCommit(s)

SpecConcurrent == Init /\ [][NextConcurrent]_vars

\* process_detections over a stored batch, one request at a time
NextBatch ==
    \/ Exclusive /\ ProcessRead(1)
    \/ ProcessFlush(1)
    \/ ProcessCommit(1)

SpecBatch == InitBatch /\ [][NextBatch]_vars

\* the aggregation of one cluster, for every cluster statistics of the bounds
NextAggregate == Aggregate

SpecAggregate == InitAggregate /\ [][NextAggregate]_vars

-----------------------------------------------------------------------------
(* Vocabulary of the properties *)

LastRun == last.op = "process_detections"
LastOk == LastRun /\ last.status = "ok"
LastEmpty == LastRun /\ last.status = "empty"
LastFailed == LastRun /\ last.status = "failed"

\* the ids S in ascending order
RECURSIVE Ascending(_)
Ascending(S) == IF S = {} THEN <<>> ELSE <<Min(S)>> \o Ascending(S \ {Min(S)})

\* the ids of the rows a session read, in the order it read them
ReadOrder(s) == [k \in 1..Len(rows[s]) |-> rows[s][k].id]

\* the work of a run over the rows r taken in ascending id order
RunInIdOrder(r, hid) ==
    LET ids == Ascending({d.id : d \in Range(r)})
    IN  RunBody([k \in 1..Len(ids) |-> CHOOSE d \in Range(r) : d.id = ids[k]],
                hid, min_points)

UnprocessedIds(dets) == {i \in DOMAIN dets : ~dets[i].processed}

\* the detections whose hazard_id references hazard id hid
Members(dets, hid) == {i \in DOMAIN dets : dets[i].hazard_id = hid}

CoordIds(coords) == {coords[i][3] : i \in DOMAIN coords}

HazardLabels == {"pothole", "speed_bump", "speed_hump", "rough_road", "unknown"}

\* a hazard without its id
StripId(h) ==
    [latitude |-> h.latitude, longitude |-> h.longitude,
     hazard_type |-> h.hazard_type, severity |-> h.severity,
     confidence |-> h.confidence, detection_count |-> h.detection_count,
     unique_user_count |-> h.unique_user_count,
     verification_count |-> h.verification_count,
     positive_verifications |-> h.positive_verifications,
     first_detected |-> h.first_detected, last_detected |-> h.last_detected,
     is_active |-> h.is_active, is_verified |-> h.is_verified]

\* hazards and linkage up to hazard ids, and the processed flags
Canon(dets, hzs) ==
    [hazards |-> {[hazard |-> StripId(h), members |-> Members(dets, h.id)] : h \in hzs},
     processed |-> {i \in DOMAIN dets : dets[i].processed}]

\* what reset_processed followed by one process_detections run over the
\* current detections produces (rows read in id order, ids from 1)
FreshRun ==
    LET cleared == [i \in DOMAIN detections |->
                       [detections[i] EXCEPT !.processed = FALSE, !.hazard_id = NoHazard]]
        ids == DOMAIN detections
        ordered == CHOOSE f \in [1..Cardinality(ids) -> ids] :
                       \A i, j \in 1..Cardinality(ids) : i < j => f[i] < f[j]
        all_unprocessed == [k \in 1..Cardinality(ids) |-> cleared[ordered[k]]]
        w == RunBody(all_unprocessed, 1, min_points)
    IN  IF ids = {} THEN Canon(cleared, {}) ELSE Canon(w.dets, w.hazards)

AllProcessed == \A i \in DOMAIN detections : detections[i].processed

\* every hazard's detection_count is the number of detections referencing it
CountsMatchLinks ==
    \A h \in hazards : h.detection_count = Cardinality(Members(detections, h.id))

-----------------------------------------------------------------------------
(* Properties *)

\* C1: after a successful run over a non-empty unprocessed set, every
\* detection that was unprocessed when the run read the table is processed,
\* and is either linked to a hazard created in that run or noise (hazard_id
\* null).
C1_EveryInputTerminal ==
    LastOk =>
        /\ last.input = UnprocessedIds(last.before.detections)
        /\ \A i \in UnprocessedIds(last.before.detections) :
              /\ i \in DOMAIN detections
              /\ detections[i].processed
              /\ \/ detections[i].hazard_id = NoHazard
                 \/ /\ detections[i].hazard_id \in last.created
                    /\ \E h \in hazards : h.id = detections[i].hazard_id

C1_Witness ==
    /\ LastOk
    /\ \E i \in last.input : detections[i].hazard_id # NoHazard
    /\ \E i \in last.input : detections[i].hazard_id = NoHazard

\* C2: a process_detections call that finds no unprocessed detection returns
\* all counts zero, creates no hazard and leaves every detection and hazard
\* unchanged.
C2_NoUnprocessedIsNoOp ==
    (LastRun /\ UnprocessedIds(last.before.detections) = {}) =>
        /\ last.status = "empty"
        /\ last.response.detections_total = 0
        /\ last.response.human_confirmed_hazards = 0
        /\ last.response.clustered_hazards = 0
        /\ last.response.detections_processed = 0
        /\ last.response.detections_marked_noise = 0
        /\ detections = last.before.detections
        /\ hazards = last.before.hazards

C2_Witness ==
    /\ LastEmpty
    /\ last.before.hazards # {}
    /\ \E i \in DOMAIN detections : detections[i].hazard_id = NoHazard

\* C3: a successful run leaves every detection that was already processed at
\* its start as it was, keeps every hazard that existed before it unchanged,
\* and changes only detections that were unprocessed at its start.
C3_RunFrame ==
    LastOk =>
        /\ \A i \in DOMAIN last.before.detections :
              last.before.detections[i].processed =>
                  (i \in DOMAIN detections /\ detections[i] = last.before.detections[i])
        /\ last.before.hazards \subseteq hazards
        /\ hazards \ last.before.hazards = {h \in hazards : h.id \in last.created}

C3_Witness ==
    /\ LastOk
    /\ last.created # {}
    /\ last.before.hazards # {}
    /\ \E i \in DOMAIN last.before.detections :
          /\ last.before.detections[i].processed
          /\ last.before.detections[i].hazard_id # NoHazard

\* C4 (as claimed): once no invocation is in flight, every hazard's
\* detection_count equals the number of detections referencing it, also
\* when invocations interleaved.
C4_Original == Exclusive => CountsMatchLinks

\* C4 (amended): when no two process_detections invocations were in flight
\* at the same time, every hazard's detection_count equals the number of
\* detections referencing it once no invocation is in flight.
C4_SerialRunsExactlyOnce == (Exclusive /\ ~overlapped) => CountsMatchLinks

C4_Witness ==
    /\ Exclusive /\ ~overlapped
    /\ LastOk
    /\ last.created # {}
    /\ last.before.hazards # {}

\* C5: a run that fails before its commit completes is void: every detection
\* row that existed when it read is as it was and the hazards are the hazards
\* that existed then.
C5_FailedRunIsVoid ==
    LastFailed =>
        /\ \A i \in DOMAIN last.before.detections :
              i \in DOMAIN detections /\ detections[i] = last.before.detections[i]
        /\ hazards = last.before.hazards

C5_Witness ==
    /\ LastFailed
    /\ last.stage = "flushed"
    /\ last.flushed # {}

\* C6 (as claimed): whenever every detection is processed and no handler is
\* running, hazards and linkage equal, up to hazard ids, what
\* reset_processed followed by one run over the same detections produces.
C6_Original ==
    (Exclusive /\ AllProcessed) => Canon(detections, hazards) = FreshRun

\* C6 (amended): when all current detections were processed by one single
\* run that started with no detection processed and no hazard, hazards and
\* linkage equal, up to hazard ids, what reset_processed followed by one
\* run over the same detections produces.
C6_SingleRunIsFreshRun ==
    (/\ LastOk
     /\ AllProcessed
     /\ last.before.hazards = {}
     /\ \A i \in DOMAIN last.before.detections : ~last.before.detections[i].processed)
    => Canon(detections, hazards) = FreshRun

C6_Witness ==
    /\ LastOk
    /\ AllProcessed
    /\ last.before.hazards = {}
    /\ \A i \in DOMAIN last.before.detections : ~last.before.detections[i].processed
    /\ resets > 0
    /\ \E h \in hazards : h.detection_count > 1

\* C7: a detection is counted in one hazard only: after a successful run
\* every hazard created by it has detection_count >= 1 equal to the number
\* of detections whose hazard_id is its id, and the run created as many
\* hazards as it reports; and a step other than reset_processed or
\* clear_database never changes a hazard_id that is set.
C7_CreatedCounts ==
    LastOk =>
        /\ \A h \in hazards :
              h.id \in last.created =>
                  /\ h.detection_count >= 1
                  /\ h.detection_count = Cardinality(Members(detections, h.id))
        /\ Cardinality({h \in hazards : h.id \in last.created}) =
              last.response.human_confirmed_hazards + last.response.clustered_hazards

ResetOrClearStep ==
    /\ last' # last
    /\ last'.op \in {"reset_processed", "clear_database"}

StickyLinks ==
    \A i \in DOMAIN detections :
        detections[i].hazard_id # NoHazard =>
            \/ ResetOrClearStep
            \/ /\ i \in DOMAIN detections'
               /\ detections'[i].hazard_id = detections[i].hazard_id

C8_HumanConfirmedHazard ==
    LastOk =>
        \A i \in last.input :
            LET d == last.before.detections[i]
            IN  d.confirmed_type \notin {None, ""} =>
                /\ detections[i].processed
                /\ detections[i].hazard_id \in last.created
                /\ Members(detections, detections[i].hazard_id) = {i}
                /\ i \notin CoordIds(last.clustering_input)
                /\ \E h \in hazards :
                      /\ h.id = detections[i].hazard_id
                      /\ h.latitude = 100 * d.latitude
                      /\ h.longitude = 100 * d.longitude
                      /\ h.hazard_type = Lower(d.confirmed_type)
                      /\ h.confidence = 90
                      /\ h.detection_count = 1
                      /\ h.unique_user_count = 1
                      /\ h.first_detected = d.timestamp
                      /\ h.last_detected = d.timestamp
                      /\ h.is_active
                      /\ ~h.is_verified

C8_Witness ==
    /\ LastOk
    /\ \E i, j \in last.input :
          /\ last.before.detections[i].confirmed_type = "Pothole"
          /\ j \in CoordIds(last.clustering_input)
          /\ last.before.detections[j].latitude = last.before.detections[i].latitude
          /\ last.before.detections[j].longitude = last.before.detections[i].longitude
          /\ detections[j].hazard_id # NoHazard

\* C9 (as claimed): after a successful run, every input detection whose
\* confirmed_type is the empty string is linked to a hazard of its own with
\* hazard_type unknown and confidence 0.9, and was not passed to clustering.
C9_EmptyLabelOnHumanPath ==
    LastOk =>
        \A i \in last.input :
            last.before.detections[i].confirmed_type = "" =>
                /\ i \notin CoordIds(last.clustering_input)
                /\ Members(detections, detections[i].hazard_id) = {i}
                /\ \E h \in hazards :
                      /\ h.id = detections[i].hazard_id
                      /\ h.hazard_type = "unknown"
                      /\ h.confidence = 90

\* C10 (as claimed): in every reachable state every hazard's hazard_type is
\* one of pothole, speed_bump, speed_hump, rough_road, unknown.
C10_ClosedLabelSet == \A h \in hazards : h.hazard_type \in HazardLabels

\* the classification rules of the reference, in priority order, on the
\* average sum / n of the magnitudes (hundredths of g)
ReferenceRules(sum, n, mx) ==
    << <<mx >= 100, "speed_hump">>,
       <<sum >= 30 * n /\ n >= 8, "rough_road">>,
       <<20 * n <= sum /\ sum <= 31 * n, "speed_bump">>,
       <<sum >= 20 * n, "pothole">>,
       <<TRUE, "unknown">> >>

FirstMatch(rules) == rules[Min({i \in DOMAIN rules : rules[i][1]})][2]

Aggregated == stats.op = "aggregated"

\* C11: the hazard type of a cluster is the first matching rule of the
\* priority list speed_hump, rough_road, speed_bump, pothole, unknown over
\* its average and maximum magnitude and its size; an average of 0.31 gives
\* speed_bump and 0.32 gives pothole when the size is below 8 and the
\* maximum below 1.0, a maximum of 1.2 gives speed_hump, and an average in
\* [0.30, 0.31] with size >= 8 gives rough_road.
C11_ClassifierPriority ==
    Aggregated =>
        LET n == stats.detection_count
            sum == stats.sum
            mx == stats.max_magnitude
        IN  /\ stats.hazard_type = FirstMatch(ReferenceRules(sum, n, mx))
            /\ (sum = 31 * n /\ n < 8 /\ mx < 100) => stats.hazard_type = "speed_bump"
            /\ (sum = 32 * n /\ n < 8 /\ mx < 100) => stats.hazard_type = "pothole"
            /\ mx = 120 => stats.hazard_type = "speed_hump"
            /\ (30 * n <= sum /\ sum <= 31 * n /\ n >= 8 /\ mx < 100)
                   => stats.hazard_type = "rough_road"

C11_Witness ==
    /\ Aggregated
    /\ stats.detection_count >= 8
    /\ stats.sum = 31 * stats.detection_count
    /\ stats.max_magnitude < 100
    /\ stats.hazard_type = "rough_road"

\* C12: the confidence of a hazard created from a cluster of n detections by
\* u distinct users is min(1.0, 0.1 n + 0.2 u): it lies in [0, 1], does not
\* decrease when n or u grows, and is 1.0 whenever 0.1 n + 0.2 u >= 1.
C12_ConfidenceFormula ==
    Aggregated =>
        LET n == stats.detection_count
            u == stats.unique_users
        IN  /\ stats.confidence = Min({100, 10 * n + 20 * u})
            /\ 0 <= stats.confidence /\ stats.confidence <= 100
            /\ stats.confidence <= ClusterConfidence(n + 1, u)
            /\ stats.confidence <= ClusterConfidence(n, u + 1)
            /\ stats.confidence <= ClusterConfidence(n + 1, u + 1)
            /\ (10 * n + 20 * u >= 100) => stats.confidence = 100

C12_Witness ==
    /\ Aggregated
    /\ stats.detection_count = 8
    /\ stats.unique_users = 4
    /\ stats.confidence = 100

\* a detection fails the input validation of section 7 of the design
Malformed(d) == d.magnitude < 0

\* C13 (as claimed): a run whose unprocessed detections include one with a
\* negative magnitude is rejected: it does not complete, no hazard is
\* created and every detection it read stays unprocessed.
C13_MalformedInputRejected ==
    /\ \A s \in Sessions :
          (pc[s] = "flushed" /\ \E d \in Range(rows[s]) : Malformed(d))
              => pending[s].hazards = {}
    /\ (LastRun /\ \E i \in last.input : Malformed(last.before.detections[i]))
          => /\ LastFailed
             /\ hazards = last.before.hazards
             /\ \A i \in last.input : ~detections[i].processed

ClusteredIds == UNION Range(cluster_detections(last.clustering_input, min_points))

\* the detections the last run left processed and not linked
NoiseIds ==
    {i \in last.input : detections[i].processed /\ detections[i].hazard_id = NoHazard}

\* C15: after a successful run an algorithm-only input detection is noise
\* (processed, hazard_id null) if and only if it is in no cluster the
\* clustering step returned; a human-confirmed detection is never noise; no
\* created hazard counts a noise detection: each has as many linked
\* detections as its detection_count, at least one; and
\* detections_marked_noise is the number of noise detections.
C15_NoiseIffUnclustered ==
    LastOk =>
        /\ \A i \in last.input :
              IF IsHumanConfirmed(last.before.detections[i])
              THEN i \notin NoiseIds /\ i \notin CoordIds(last.clustering_input)
              ELSE /\ i \in CoordIds(last.clustering_input)
                   /\ i \in NoiseIds <=> i \notin ClusteredIds
        /\ \A h \in hazards :
              h.id \in last.created =>
                  /\ Members(detections, h.id) # {}
                  /\ Members(detections, h.id) \cap NoiseIds = {}
                  /\ h.detection_count = Cardinality(Members(detections, h.id))
        /\ last.response.detections_marked_noise = Cardinality(NoiseIds)

C15_Witness ==
    /\ LastOk
    /\ last.response.human_confirmed_hazards = 1
    /\ last.response.clustered_hazards = 1
    /\ Cardinality(ClusteredIds) = 3
    /\ NoiseIds = {5}

\* C17: after a successful run every hazard it created from a cluster has
\* unique_user_count equal to the number of distinct user_id of its member
\* detections, between 1 and its detection_count, and first_detected and
\* last_detected equal to the minimum and the maximum of its members'
\* timestamps, so first_detected <= last_detected.
C17_UsersAndTemporalBounds ==
    LastOk =>
        \A h \in hazards :
            LET members == Members(detections, h.id)
                users == {detections[i].user_id : i \in members}
                timestamps == {detections[i].timestamp : i \in members}
            IN  (h.id \in last.created /\ members \subseteq ClusteredIds) =>
                    /\ members # {}
                    /\ h.unique_user_count = Cardinality(users)
                    /\ 1 <= h.unique_user_count
                    /\ h.unique_user_count <= h.detection_count
                    /\ h.first_detected = Min(timestamps)
                    /\ h.last_detected = Max(timestamps)
                    /\ h.first_detected <= h.last_detected

C17_Witness ==
    /\ LastOk
    /\ \E h \in hazards :
          /\ h.id \in last.created
          /\ Members(detections, h.id) = {1, 2, 3, 4}
          /\ h.detection_count = 4
          /\ h.unique_user_count = 2
          /\ h.first_detected = 1
          /\ h.last_detected = 4

LastReset == last.op = "reset_processed"

\* the state reset_processed leaves: what it read, with every flag cleared
C16_ResetPostcondition ==
    LastReset =>
        /\ hazards = {}
        /\ \A i \in DOMAIN detections :
              ~detections[i].processed /\ detections[i].hazard_id = NoHazard
        /\ \A i \in DOMAIN last.before.detections :
              /\ i \in DOMAIN detections
              /\ detections[i] = [last.before.detections[i] EXCEPT
                                     !.processed = FALSE, !.hazard_id = NoHazard]
        /\ last.response.detections_reset = Cardinality(DOMAIN last.before.detections)
        /\ last.response.hazards_deleted = Cardinality(last.before.hazards)

\* a step that clears the processed flag of a detection, or removes a
\* hazard, leaves no hazard and no processed or linked detection; the step
\* that completes reset_processed adds and removes no detection
ResetIsOneStep ==
    /\ (last' # last /\ last'.op = "reset_processed")
          => DOMAIN detections' = DOMAIN detections
    /\ (\/ \E i \in DOMAIN detections :
              /\ i \in DOMAIN detections'
              /\ detections[i].processed
              /\ ~detections'[i].processed
        \/ hazards \ hazards' # {})
          => /\ hazards' = {}
             /\ \A i \in DOMAIN detections' :
                   ~detections'[i].processed /\ detections'[i].hazard_id = NoHazard

\* C16: when reset_processed completes every detection is unprocessed with
\* hazard_id null and no hazard exists, it added and removed no detection,
\* the detections it read are unchanged but for the two fields,
\* detections_reset is their number and hazards_deleted the number of
\* hazards that existed; and the change is committed as one step: no
\* committed state has flags cleared while hazards exist, or hazards
\* removed while a detection is still linked.
C16_ResetIsCompleteAndAtomic == [][C16_ResetPostcondition' /\ ResetIsOneStep]_vars

C16_Witness ==
    /\ LastReset
    /\ last.response.detections_reset = 2
    /\ last.response.hazards_deleted >= 1
    /\ \E i \in DOMAIN last.before.detections :
          last.before.detections[i].hazard_id # NoHazard
    /\ \E i \in DOMAIN last.before.detections :
          /\ last.before.detections[i].processed
          /\ last.before.detections[i].hazard_id = NoHazard

\* every hazard_id that is set refers to an existing hazard and belongs to
\* a processed detection
References(t) ==
    \A i \in DOMAIN t.detections :
        t.detections[i].hazard_id # NoHazard =>
            /\ \E h \in t.hazards : h.id = t.detections[i].hazard_id
            /\ t.detections[i].processed

\* every hazard is referenced by a detection
NoOrphanHazard(t) == \A h \in t.hazards : Members(t.detections, h.id) # {}

\* C18 (as claimed): in every state, the flushed states inside a handler
\* included, every hazard_id that is set refers to an existing hazard and
\* belongs to a processed detection, and every hazard is referenced by a
\* detection.
C18_Original ==
    /\ References(Tables) /\ NoOrphanHazard(Tables)
    /\ \A s \in Sessions : References(SessionView(s)) /\ NoOrphanHazard(SessionView(s))

\* C18 (amended): in every committed state every hazard_id that is set
\* refers to an existing hazard and belongs to a processed detection, and
\* every hazard is referenced by a detection; in the flushed states inside
\* a handler the first two still hold of what the handler's session sees.
C18_CommittedIntegrity ==
    /\ References(Tables) /\ NoOrphanHazard(Tables)
    /\ \A s \in Sessions : References(SessionView(s))

C18_Witness ==
    /\ pc[1] = "reset_flushed"
    /\ hazards # {}
    /\ \E i \in DOMAIN detections : detections[i].hazard_id # NoHazard
    /\ ~NoOrphanHazard(SessionView(1))

\* C19: the counts a run returns agree with each other and with what it
\* changed: detections_total is the number of rows it read and equals
\* detections_processed + detections_marked_noise; human_confirmed_hazards
\* is the number of human-confirmed rows it read; human_confirmed_hazards +
\* clustered_hazards is the number of hazards it added; detections_processed
\* is the number of detections whose hazard_id it set.
C19_CountsAgree ==
    (LastOk \/ LastEmpty) =>
        LET r == last.response
        IN  /\ r.detections_total = Cardinality(last.input)
            /\ r.detections_total = r.detections_processed + r.detections_marked_noise
            /\ r.human_confirmed_hazards =
                  Cardinality({i \in last.input :
                                  IsHumanConfirmed(last.before.detections[i])})
            /\ r.human_confirmed_hazards + r.clustered_hazards =
                  Cardinality(hazards \ last.before.hazards)
            /\ r.detections_processed =
                  Cardinality({i \in last.input :
                                  /\ last.before.detections[i].hazard_id = NoHazard
                                  /\ detections[i].hazard_id # NoHazard})
            /\ r.detections_marked_noise =
                  Cardinality({i \in last.input :
                                  /\ detections[i].processed
                                  /\ detections[i].hazard_id = NoHazard})

C19_Witness ==
    /\ LastOk
    /\ last.response.human_confirmed_hazards = 1
    /\ last.response.detections_total = 2
    /\ last.response.detections_processed = 1
    /\ last.response.detections_marked_noise = 1

====
